---- MODULE Spec2Model ----
(***************************************************************************)
(* Model of paddlenlp/trl/extras/dataset_formatting.py: the schema matcher *)
(* get_formatting_func_from_dataset and the three format_dataset closures. *)
(*                                                                         *)
(* Python values are tagged records (field py holds the Python type), so   *)
(* that isinstance tests are computed and not assumed.  A call's outcome   *)
(* is a record holding the returned value or the raised exception, the     *)
(* renderer calls made, and the log entries emitted.                       *)
(***************************************************************************)
EXTENDS Integers, Sequences, FiniteSets, TLC

VARIABLES
    pc,          \* "start", "selected" (matcher returned), "formatted" (formatter called)
    dataset,     \* the object handed to get_formatting_func_from_dataset
    formatter,   \* what the matcher returned: a closure or None
    logs,        \* logging.info entries emitted so far
    evaluated,   \* the tests of the matcher evaluated, in order
    sel_calls,   \* renderer calls made while the matcher ran
    sel_raised,  \* exception the matcher ended in ("" when it returned)
    batched,     \* how the caller built the batch (dataset.map batched or not)
    arg,         \* the batch as handed to the formatter
    examples,    \* the batch object after the formatter call
    output,      \* what the formatter returned (None when it raised)
    raised,      \* exception the formatter ended in ("" when it returned)
    calls        \* renderer calls made by the formatter call, in order

vars == <<pc, dataset, formatter, logs, evaluated, sel_calls, sel_raised,
          batched, arg, examples, output, raised, calls>>

----------------------------------------------------------------------------
(* Bounds of the model *)

\* longest batch handed to a formatter
MaxBatch == 2

\* longest conversation (number of messages) in a conversations batch
MaxMsgs == 1

----------------------------------------------------------------------------
(* Python values *)

None == [py |-> "NoneType"]

Str(s) == [py |-> "str", s |-> s]

List(items) == [py |-> "list", items |-> items]

\* a {"role": ..., "content": ...} dict; role is a str literal, content any value
Message(role, content) == [py |-> "dict", role |-> role, content |-> content]

isinstance_list(v) == v.py = "list"

\* datasets.Value(dtype=..., id=None)
Value(dtype) == [ft |-> "Value", dtype |-> dtype, id |-> "None"]

\* a one-element Python list [feature] used as a feature type
ListFeature(feature) == [ft |-> "list", feature |-> feature]

FORMAT_MAPPING ==
    [chatml      |-> ListFeature([content |-> Value("string"), role |-> Value("string")]),
     instruction |-> [completion |-> Value("string"), prompt |-> Value("string")],
     paddlenlp   |-> [src |-> Value("string"), tgt |-> Value("string")]]

----------------------------------------------------------------------------
(* The closures the three factory functions return *)

conversations_formatting_function(messages_field) ==
    [py |-> "function", kind |-> "conversations", field |-> messages_field]

instructions_formatting_function ==
    [py |-> "function", kind |-> "instruction", field |-> ""]

paddlenlp_instructions_formatting_function ==
    [py |-> "function", kind |-> "paddlenlp", field |-> ""]

----------------------------------------------------------------------------
(* get_formatting_func_from_dataset *)

\* outcome of (a part of) the matcher: done = a return statement was executed
Returned(ret, log, tests) ==
    [done |-> TRUE, ret |-> ret, logs |-> log, evaluated |-> tests,
     calls |-> <<>>, raised |-> ""]

FellThrough(tests) ==
    [done |-> FALSE, ret |-> None, logs |-> <<>>, evaluated |-> tests,
     calls |-> <<>>, raised |-> ""]

isinstance_Dataset(d) == d.cls = "Dataset"

\* variant: a `messages` field that is not chatml ends the matcher (returns None)
MessagesBranch_returns_on_mismatch(features) ==
    IF "messages" \in DOMAIN features
    THEN IF features["messages"] = FORMAT_MAPPING.chatml
         THEN Returned(conversations_formatting_function("messages"),
                       <<"Formatting dataset with chatml format">>,
                       <<"messages_in", "messages_eq">>)
         ELSE Returned(None, <<>>, <<"messages_in", "messages_eq">>)
    ELSE FellThrough(<<"messages_in">>)

\* the `if "messages" in dataset.features:` statement
MessagesBranch(features) ==
    IF "messages" \in DOMAIN features
    THEN IF features["messages"] = FORMAT_MAPPING.chatml
         THEN Returned(conversations_formatting_function("messages"),
                       <<"Formatting dataset with chatml format">>,
                       <<"messages_in", "messages_eq">>)
         ELSE FellThrough(<<"messages_in", "messages_eq">>)
    ELSE FellThrough(<<"messages_in">>)

\* variant: the source-target path logs like the other paths
ConversationsChain_logs_paddlenlp(features) ==
    IF "conversations" \in DOMAIN features
    THEN IF features["conversations"] = FORMAT_MAPPING.chatml
         THEN Returned(conversations_formatting_function("conversations"),
                       <<"Formatting dataset with chatml format">>,
                       <<"conversations_in", "conversations_eq">>)
         ELSE FellThrough(<<"conversations_in", "conversations_eq">>)
    ELSE IF features = FORMAT_MAPPING.instruction
         THEN Returned(instructions_formatting_function,
                       <<"Formatting dataset with instruction format">>,
                       <<"conversations_in", "instruction_eq">>)
         ELSE IF features = FORMAT_MAPPING.paddlenlp
              THEN Returned(paddlenlp_instructions_formatting_function,
                            <<"Formatting dataset with paddlenlp format">>,
                            <<"conversations_in", "instruction_eq", "paddlenlp_eq">>)
              ELSE FellThrough(<<"conversations_in", "instruction_eq", "paddlenlp_eq">>)

\* variant: one flat chain, `if "conversations" in features and features[...] == chatml`
\* followed by the two elif tests
ConversationsChain_flat(features) ==
    IF "conversations" \in DOMAIN features
          /\ features["conversations"] = FORMAT_MAPPING.chatml
    THEN Returned(conversations_formatting_function("conversations"),
                  <<"Formatting dataset with chatml format">>,
                  <<"conversations_in", "conversations_eq">>)
    ELSE LET first == IF "conversations" \in DOMAIN features
                      THEN <<"conversations_in", "conversations_eq">>
                      ELSE <<"conversations_in">>
         IN  IF features = FORMAT_MAPPING.instruction
             THEN Returned(instructions_formatting_function,
                           <<"Formatting dataset with instruction format">>,
                           first \o <<"instruction_eq">>)
             ELSE IF features = FORMAT_MAPPING.paddlenlp
                  THEN Returned(paddlenlp_instructions_formatting_function,
                                <<>>,
                                first \o <<"instruction_eq", "paddlenlp_eq">>)
                  ELSE FellThrough(first \o <<"instruction_eq", "paddlenlp_eq">>)

\* the `if "conversations" in dataset.features: ... elif ... elif ...` statement
ConversationsChain(features) ==
    IF "conversations" \in DOMAIN features
    THEN IF features["conversations"] = FORMAT_MAPPING.chatml
         THEN Returned(conversations_formatting_function("conversations"),
                       <<"Formatting dataset with chatml format">>,
                       <<"conversations_in", "conversations_eq">>)
         ELSE FellThrough(<<"conversations_in", "conversations_eq">>)
    ELSE IF features = FORMAT_MAPPING.instruction
         THEN Returned(instructions_formatting_function,
                       <<"Formatting dataset with instruction format">>,
                       <<"conversations_in", "instruction_eq">>)
         ELSE IF features = FORMAT_MAPPING.paddlenlp
              THEN Returned(paddlenlp_instructions_formatting_function,
                            <<>>,
                            <<"conversations_in", "instruction_eq", "paddlenlp_eq">>)
              ELSE FellThrough(<<"conversations_in", "instruction_eq", "paddlenlp_eq">>)

\* statement s2 runs only when statement s1 executed no return
Then(s1, s2) ==
    IF s1.done THEN s1
    ELSE [s2 EXCEPT !.evaluated = s1.evaluated \o s2.evaluated]

\* variant: the `conversations` statement placed before the `messages` statement
get_formatting_func_conversations_first(d) ==
    IF isinstance_Dataset(d)
    THEN LET body == Then(ConversationsChain(d.features), MessagesBranch(d.features))
         IN  [body EXCEPT !.done = TRUE,
                          !.evaluated = <<"isinstance">> \o body.evaluated]
    ELSE Returned(None, <<>>, <<"isinstance">>)

\* variant: no isinstance test; an object without a features attribute raises
get_formatting_func_duck_typed(d) ==
    IF d.cls = "dict"
    THEN [done |-> TRUE, ret |-> None, logs |-> <<>>, evaluated |-> <<>>,
          calls |-> <<>>, raised |-> "AttributeError"]
    ELSE LET body == Then(MessagesBranch(d.features), ConversationsChain(d.features))
         IN  [body EXCEPT !.done = TRUE]

get_formatting_func_from_dataset(d) ==
    IF isinstance_Dataset(d)
    THEN LET body == Then(MessagesBranch(d.features), ConversationsChain(d.features))
         IN  [body EXCEPT !.done = TRUE,
                          !.evaluated = <<"isinstance">> \o body.evaluated]
    ELSE Returned(None, <<>>, <<"isinstance">>)

----------------------------------------------------------------------------
(* The renderer: tokenizer.apply_chat_template(conversation, tokenize=...) *)

RECURSIVE RenderMessages(_)
RenderMessages(msgs) ==
    IF msgs = <<>> THEN <<>>
    ELSE <<"<|im_start|>", Head(msgs).role, Head(msgs).content.s, "<|im_end|>">>
         \o RenderMessages(Tail(msgs))

\* text when tokenize is false, token ids otherwise
apply_chat_template(conversation, tokenize) ==
    [py |-> IF tokenize THEN "input_ids" ELSE "str",
     text |-> RenderMessages(conversation.items)]

RenderCall(conversation, tokenize) ==
    [conversation |-> conversation, tokenize |-> tokenize]

----------------------------------------------------------------------------
(* format_dataset: the three closures *)

\* outcome of a formatter call
Return(value, made, ex) ==
    [ret |-> value, raised |-> "", calls |-> made, examples |-> ex]

Raise(exc, made, ex) ==
    [ret |-> None, raised |-> exc, calls |-> made, examples |-> ex]

\* variant: tokenize=False left out of the call (the renderer's default is True)
RECURSIVE conversations_loop_tokenizing(_, _, _, _, _)
conversations_loop_tokenizing(examples_, messages_field, i, output_texts, made) ==
    IF i >= Len(examples_[messages_field].items)
    THEN Return(List(output_texts), made, examples_)
    ELSE LET row == examples_[messages_field].items[i + 1]
         IN  conversations_loop_tokenizing(examples_, messages_field, i + 1,
                 Append(output_texts, apply_chat_template(row, TRUE)),
                 Append(made, RenderCall(row, TRUE)))

\* the for loop of conversations_formatting_function.format_dataset
RECURSIVE conversations_loop(_, _, _, _, _)
conversations_loop(examples_, messages_field, i, output_texts, made) ==
    IF i >= Len(examples_[messages_field].items)
    THEN Return(List(output_texts), made, examples_)
    ELSE LET row == examples_[messages_field].items[i + 1]
         IN  conversations_loop(examples_, messages_field, i + 1,
                 Append(output_texts, apply_chat_template(row, FALSE)),
                 Append(made, RenderCall(row, FALSE)))

conversations_format_dataset(messages_field, examples_) ==
    IF messages_field \notin DOMAIN examples_
    THEN Raise("KeyError", <<>>, examples_)
    ELSE IF Len(examples_[messages_field].items) = 0
    THEN Raise("IndexError", <<>>, examples_)
    ELSE IF isinstance_list(examples_[messages_field].items[1])
    THEN conversations_loop(examples_, messages_field, 0, <<>>, <<>>)
    ELSE Return(apply_chat_template(examples_[messages_field], FALSE),
                <<RenderCall(examples_[messages_field], FALSE)>>,
                examples_)

\* variant: every prompt paired with the first completion
RECURSIVE instructions_loop_first_completion(_, _, _, _)
instructions_loop_first_completion(examples_, i, output_texts, made) ==
    IF i >= Len(examples_["prompt"].items)
    THEN Return(List(output_texts), made, examples_)
    ELSE IF "completion" \notin DOMAIN examples_
    THEN Raise("KeyError", made, examples_)
    ELSE IF 0 >= Len(examples_["completion"].items)
    THEN Raise("IndexError", made, examples_)
    ELSE LET converted_sample ==
                 List(<<Message("user", examples_["prompt"].items[i + 1]),
                        Message("assistant", examples_["completion"].items[1])>>)
         IN  instructions_loop_first_completion(examples_, i + 1,
                 Append(output_texts, apply_chat_template(converted_sample, FALSE)),
                 Append(made, RenderCall(converted_sample, FALSE)))

\* variant: the loop stops at the shorter column (zip)
RECURSIVE instructions_loop_truncating(_, _, _, _)
instructions_loop_truncating(examples_, i, output_texts, made) ==
    IF i >= Len(examples_["prompt"].items)
    THEN Return(List(output_texts), made, examples_)
    ELSE IF "completion" \notin DOMAIN examples_
    THEN Raise("KeyError", made, examples_)
    ELSE IF i >= Len(examples_["completion"].items)
    THEN Return(List(output_texts), made, examples_)
    ELSE LET converted_sample ==
                 List(<<Message("user", examples_["prompt"].items[i + 1]),
                        Message("assistant", examples_["completion"].items[i + 1])>>)
         IN  instructions_loop_truncating(examples_, i + 1,
                 Append(output_texts, apply_chat_template(converted_sample, FALSE)),
                 Append(made, RenderCall(converted_sample, FALSE)))

\* the for loop of instructions_formatting_function.format_dataset
RECURSIVE instructions_loop(_, _, _, _)
instructions_loop(examples_, i, output_texts, made) ==
    IF i >= Len(examples_["prompt"].items)
    THEN Return(List(output_texts), made, examples_)
    ELSE IF "completion" \notin DOMAIN examples_
    THEN Raise("KeyError", made, examples_)
    ELSE IF i >= Len(examples_["completion"].items)
    THEN Raise("IndexError", made, examples_)
    ELSE LET converted_sample ==
                 List(<<Message("user", examples_["prompt"].items[i + 1]),
                        Message("assistant", examples_["completion"].items[i + 1])>>)
         IN  instructions_loop(examples_, i + 1,
                 Append(output_texts, apply_chat_template(converted_sample, FALSE)),
                 Append(made, RenderCall(converted_sample, FALSE)))

instructions_format_dataset(examples_) ==
    IF "prompt" \notin DOMAIN examples_
    THEN Raise("KeyError", <<>>, examples_)
    ELSE IF isinstance_list(examples_["prompt"])
    THEN instructions_loop(examples_, 0, <<>>, <<>>)
    ELSE IF "completion" \notin DOMAIN examples_
    THEN Raise("KeyError", <<>>, examples_)
    ELSE LET converted_sample ==
                 List(<<Message("user", examples_["prompt"]),
                        Message("assistant", examples_["completion"])>>)
         IN  Return(apply_chat_template(converted_sample, FALSE),
                    <<RenderCall(converted_sample, FALSE)>>,
                    examples_)

\* the for loop of paddlenlp_instructions_formatting_function.format_dataset
RECURSIVE paddlenlp_loop(_, _, _, _)
paddlenlp_loop(examples_, i, output_texts, made) ==
    IF i >= Len(examples_["src"].items)
    THEN Return(List(output_texts), made, examples_)
    ELSE IF "tgt" \notin DOMAIN examples_
    THEN Raise("KeyError", made, examples_)
    ELSE IF i >= Len(examples_["tgt"].items)
    THEN Raise("IndexError", made, examples_)
    ELSE LET converted_sample ==
                 List(<<Message("user", examples_["src"].items[i + 1]),
                        Message("assistant", examples_["tgt"].items[i + 1])>>)
         IN  paddlenlp_loop(examples_, i + 1,
                 Append(output_texts, apply_chat_template(converted_sample, FALSE)),
                 Append(made, RenderCall(converted_sample, FALSE)))

\* variant: src and tgt exchanged in the single-row branch
paddlenlp_format_dataset_swapped(examples_) ==
    IF "src" \notin DOMAIN examples_
    THEN Raise("KeyError", <<>>, examples_)
    ELSE IF isinstance_list(examples_["src"])
    THEN paddlenlp_loop(examples_, 0, <<>>, <<>>)
    ELSE IF "tgt" \notin DOMAIN examples_
    THEN Raise("KeyError", <<>>, examples_)
    ELSE LET converted_sample ==
                 List(<<Message("user", examples_["tgt"]),
                        Message("assistant", examples_["src"])>>)
         IN  Return(apply_chat_template(converted_sample, FALSE),
                    <<RenderCall(converted_sample, FALSE)>>,
                    examples_)

paddlenlp_format_dataset(examples_) ==
    IF "src" \notin DOMAIN examples_
    THEN Raise("KeyError", <<>>, examples_)
    ELSE IF isinstance_list(examples_["src"])
    THEN paddlenlp_loop(examples_, 0, <<>>, <<>>)
    ELSE IF "tgt" \notin DOMAIN examples_
    THEN Raise("KeyError", <<>>, examples_)
    ELSE LET converted_sample ==
                 List(<<Message("user", examples_["src"]),
                        Message("assistant", examples_["tgt"])>>)
         IN  Return(apply_chat_template(converted_sample, FALSE),
                    <<RenderCall(converted_sample, FALSE)>>,
                    examples_)

\* calling the closure the matcher returned
CallFormatter(f, examples_) ==
    CASE f.kind = "conversations" -> conversations_format_dataset(f.field, examples_)
      [] f.kind = "instruction"   -> instructions_format_dataset(examples_)
      [] f.kind = "paddlenlp"     -> paddlenlp_format_dataset(examples_)

----------------------------------------------------------------------------
(* Inputs *)

FieldNames == {"messages", "conversations", "prompt", "completion", "src", "tgt"}

\* the types a schema may declare for a field
FeatureTypes(f) ==
    IF f \in {"messages", "conversations"}
    THEN {FORMAT_MAPPING.chatml,
          ListFeature([from |-> Value("string"), value |-> Value("string")]),
          Value("string")}
    ELSE {Value("string"), Value("int64")}

Schemas ==
    UNION {{s \in [S -> UNION {FeatureTypes(f) : f \in S}] :
               \A f \in S : s[f] \in FeatureTypes(f)} : S \in SUBSET FieldNames}

\* objects that are not a Dataset: an IterableDataset (it has features too) and a dict
OtherObjects ==
    {[cls |-> "IterableDataset", features |-> f] :
        f \in {FORMAT_MAPPING.instruction, FORMAT_MAPPING.paddlenlp,
               [messages |-> FORMAT_MAPPING.chatml],
               [conversations |-> FORMAT_MAPPING.chatml]}}
    \cup {[cls |-> "dict", features |-> [messages |-> FORMAT_MAPPING.chatml]]}

Datasets == {[cls |-> "Dataset", features |-> f] : f \in Schemas} \cup OtherObjects

SeqsUpTo(S, n) == UNION {[1..k -> S] : k \in 0..n}

Contents == {"a", "b"}

\* a column of strings: a list of strings when batched, one string otherwise
StringColumns(b) ==
    IF b THEN {List(q) : q \in SeqsUpTo({Str(c) : c \in Contents}, MaxBatch)}
    ELSE {Str(c) : c \in Contents}

InputMessages == {Message("user", Str("a")), Message("assistant", Str("b"))}

Conversations == {List(q) : q \in SeqsUpTo(InputMessages, MaxMsgs)}

\* a column of conversations: a list of conversations when batched, one otherwise
ConversationColumns(b) ==
    IF b THEN {List(q) : q \in SeqsUpTo(Conversations, MaxBatch)}
    ELSE Conversations

\* the value of the conversations column the formatter is not bound to
OtherColumn(b) ==
    IF b THEN List(<<List(<<Message("assistant", Str("a"))>>)>>)
    ELSE List(<<Message("assistant", Str("a"))>>)

OtherField(field) == IF field = "messages" THEN "conversations" ELSE "messages"

\* batches with columns first and second, and batches that lack column second
PairBatches(first, second, b) ==
    {[f \in {first, second} |-> IF f = first THEN p ELSE c] :
        p \in StringColumns(b), c \in StringColumns(b)}
    \cup {[f \in {first} |-> p] : p \in StringColumns(b)}

ConversationBatches(field, b) ==
    {[f \in {field} |-> v] : v \in ConversationColumns(b)}
    \cup {[f \in {field, OtherField(field)} |-> IF f = field THEN v ELSE OtherColumn(b)] :
            v \in ConversationColumns(b)}
    \cup {[f \in {OtherField(field)} |-> OtherColumn(b)]}

\* the batches a caller hands to formatter f
Batches(f, b) ==
    CASE f.kind = "conversations" -> ConversationBatches(f.field, b)
      [] f.kind = "instruction"   -> PairBatches("prompt", "completion", b)
      [] f.kind = "paddlenlp"     -> PairBatches("src", "tgt", b)

----------------------------------------------------------------------------
(* State machine *)

Init ==
    /\ pc = "start"
    /\ dataset \in Datasets
    /\ formatter = None
    /\ logs = <<>>
    /\ evaluated = <<>>
    /\ sel_calls = <<>>
    /\ sel_raised = ""
    /\ batched = FALSE
    /\ arg = None
    /\ examples = None
    /\ output = None
    /\ raised = ""
    /\ calls = <<>>

Select ==
    /\ pc = "start"
    /\ LET r == get_formatting_func_from_dataset(dataset)
       IN  /\ formatter' = r.ret
           /\ logs' = logs \o r.logs
           /\ evaluated' = r.evaluated
           /\ sel_calls' = r.calls
           /\ sel_raised' = r.raised
    /\ pc' = "selected"
    /\ UNCHANGED <<dataset, batched, arg, examples, output, raised, calls>>

Format ==
    /\ pc = "selected"
    /\ formatter # None
    /\ \E b \in BOOLEAN : \E ex \in Batches(formatter, b) :
         LET r == CallFormatter(formatter, ex)
         IN  /\ batched' = b
             /\ arg' = ex
             /\ examples' = r.examples
             /\ output' = r.ret
             /\ raised' = r.raised
             /\ calls' = r.calls
    /\ pc' = "formatted"
    /\ UNCHANGED <<dataset, formatter, logs, evaluated, sel_calls, sel_raised>>

Next == Select \/ Format

Spec == Init /\ [][Next]_vars

----------------------------------------------------------------------------
(* Vocabulary of the properties *)

Features == dataset.features

IsDataset == dataset.cls = "Dataset"

MatcherReturned == pc \in {"selected", "formatted"}

FormatterCalled == pc = "formatted"

\* "Conversations", "Instruction", "Source-Target" formatter, or absent
Kind == IF formatter = None THEN "absent" ELSE formatter.kind

BoundField == IF formatter = None THEN "" ELSE formatter.field

HasChatml(field) ==
    field \in DOMAIN Features /\ Features[field] = FORMAT_MAPPING.chatml

Step1Matches == IsDataset /\ HasChatml("messages")

Step2Matches == IsDataset /\ ~Step1Matches /\ HasChatml("conversations")

IsInstructionSchema ==
    IsDataset /\ Features = [prompt |-> Value("string"), completion |-> Value("string")]

IsSourceTargetSchema ==
    IsDataset /\ Features = [src |-> Value("string"), tgt |-> Value("string")]

\* the renderer's output for [{user, u}, {assistant, a}]
PairConversation(u, a) == List(<<Message("user", u), Message("assistant", a)>>)

PairRendering(u, a) == apply_chat_template(PairConversation(u, a), FALSE)

\* the two columns a pair formatter reads
FirstField == IF Kind = "instruction" THEN "prompt" ELSE "src"

SecondField == IF Kind = "instruction" THEN "completion" ELSE "tgt"

PairCall == FormatterCalled /\ Kind \in {"instruction", "paddlenlp"}

BothColumns == PairCall /\ {FirstField, SecondField} \subseteq DOMAIN arg

ConversationsCall ==
    FormatterCalled /\ Kind = "conversations" /\ BoundField \in DOMAIN arg

\* row i (from 1) of the batch, as the conversation the formatter is to render
RowConversation(i) ==
    IF Kind = "conversations" THEN arg[BoundField].items[i]
    ELSE PairConversation(arg[FirstField].items[i], arg[SecondField].items[i])

\* number of rows of a batched input
BatchLength ==
    IF Kind = "conversations" THEN Len(arg[BoundField].items)
    ELSE Len(arg[FirstField].items)

\* the whole input as one conversation, for a single-row input
ScalarConversation ==
    IF Kind = "conversations" THEN arg[BoundField]
    ELSE PairConversation(arg[FirstField], arg[SecondField])

----------------------------------------------------------------------------
(* C1 *)

\* C1: whenever the schema has a chatml-typed `messages` field, the matcher
\* returns a Conversations Formatter bound to `messages`, whatever the other
\* fields are (a chatml `conversations` field included), and that formatter
\* renders what the batch holds under `messages`.
C1_MessagesFirst ==
    /\ (MatcherReturned /\ Step1Matches) =>
          /\ Kind = "conversations"
          /\ BoundField = "messages"
    /\ (FormatterCalled /\ Step1Matches /\ "messages" \in DOMAIN arg /\ raised = "") =>
          \A k \in 1..Len(calls) :
             calls[k].conversation =
                IF batched THEN arg["messages"].items[k] ELSE arg["messages"]

C1_Witness ==
    /\ FormatterCalled
    /\ HasChatml("messages") /\ HasChatml("conversations")
    /\ {"messages", "conversations"} \subseteq DOMAIN arg
    /\ arg["messages"] # arg["conversations"]
    /\ BoundField = "messages"
    /\ Len(calls) = 2

----------------------------------------------------------------------------
(* C2 *)

\* C2: when step 1 does not match (no `messages` field, or one that is not
\* chatml) and the schema has a chatml-typed `conversations` field, the
\* matcher returns a Conversations Formatter bound to `conversations`.
C2_ConversationsSecond ==
    (MatcherReturned /\ Step2Matches) =>
        /\ Kind = "conversations"
        /\ BoundField = "conversations"

C2_Witness ==
    /\ MatcherReturned
    /\ IsDataset
    /\ "messages" \in DOMAIN Features
    /\ Features["messages"] # FORMAT_MAPPING.chatml
    /\ HasChatml("conversations")
    /\ BoundField = "conversations"

----------------------------------------------------------------------------
(* C3 *)

\* C3: for the schema {prompt: string, completion: string} the matcher
\* returns an Instruction Formatter, and on a batch whose prompt and
\* completion columns have the same length N it returns the N renderings of
\* [{user, prompt[i]}, {assistant, completion[i]}], in index order.
C3_InstructionBatch ==
    /\ (MatcherReturned /\ IsInstructionSchema) => Kind = "instruction"
    /\ (FormatterCalled /\ IsInstructionSchema /\ batched
          /\ {"prompt", "completion"} \subseteq DOMAIN arg
          /\ Len(arg["prompt"].items) = Len(arg["completion"].items)) =>
          /\ raised = ""
          /\ output.py = "list"
          /\ Len(output.items) = Len(arg["prompt"].items)
          /\ \A k \in 1..Len(arg["prompt"].items) :
                output.items[k] =
                    PairRendering(arg["prompt"].items[k], arg["completion"].items[k])

C3_Witness ==
    /\ FormatterCalled
    /\ IsInstructionSchema
    /\ batched
    /\ arg = [prompt |-> List(<<Str("a"), Str("b")>>),
              completion |-> List(<<Str("b"), Str("a")>>)]
    /\ raised = ""
    /\ Len(output.items) = 2

----------------------------------------------------------------------------
(* C4 *)

\* C4: for the schema {src: string, tgt: string} the matcher returns a
\* Source-Target Formatter, and on a single row {src: s, tgt: t} that
\* formatter returns one string, the rendering of [{user, s}, {assistant, t}].
C4_SourceTargetScalar ==
    /\ (MatcherReturned /\ IsSourceTargetSchema) => Kind = "paddlenlp"
    /\ (FormatterCalled /\ IsSourceTargetSchema /\ ~batched
          /\ {"src", "tgt"} \subseteq DOMAIN arg) =>
          /\ raised = ""
          /\ output.py = "str"
          /\ output = PairRendering(arg["src"], arg["tgt"])

C4_Witness ==
    /\ FormatterCalled
    /\ IsSourceTargetSchema
    /\ ~batched
    /\ arg = [src |-> Str("a"), tgt |-> Str("b")]
    /\ raised = ""
    /\ output.py = "str"

----------------------------------------------------------------------------
(* C5 *)

NoTemplateMatches ==
    /\ IsDataset
    /\ ~HasChatml("messages")
    /\ ~HasChatml("conversations")
    /\ ~IsInstructionSchema
    /\ ~IsSourceTargetSchema

\* C5: the matcher never raises and never calls the renderer; for an input
\* that matches no template, and for an input that is not a Dataset, it
\* returns None.
C5_AbsentNotError ==
    MatcherReturned =>
        /\ sel_raised = ""
        /\ sel_calls = <<>>
        /\ (NoTemplateMatches \/ ~IsDataset) => formatter = None

C5_Witness ==
    /\ MatcherReturned
    /\ ~IsDataset
    /\ "messages" \in DOMAIN Features
    /\ Features["messages"] = FORMAT_MAPPING.chatml
    /\ formatter = None
    /\ sel_raised = ""

----------------------------------------------------------------------------
(* C6 *)

\* the batch holds the columns the formatter reads, co-indexed
WellFormedInput ==
    \/ ConversationsCall
    \/ /\ BothColumns
       /\ batched => Len(arg[FirstField].items) = Len(arg[SecondField].items)

\* C6: every formatter returns, for a batched input of N rows (N = 0
\* included), the sequence of the N renderings of its rows in order, and for
\* a single-row input one string.
C6_ShapePreserved ==
    (FormatterCalled /\ WellFormedInput) =>
        /\ raised = ""
        /\ IF batched
           THEN /\ output.py = "list"
                /\ Len(output.items) = BatchLength
                /\ \A k \in 1..BatchLength :
                      output.items[k] = apply_chat_template(RowConversation(k), FALSE)
           ELSE /\ output.py = "str"
                /\ output = apply_chat_template(ScalarConversation, FALSE)

----------------------------------------------------------------------------
(* C7 *)

\* C7: a call of the matcher that returns a Conversations or an Instruction
\* Formatter has emitted exactly one log entry; a call that returns a
\* Source-Target Formatter or None has emitted none.
C7_LoggingAsymmetry ==
    MatcherReturned =>
        /\ Kind \in {"conversations", "instruction"} => Len(logs) = 1
        /\ Kind \in {"paddlenlp", "absent"} => Len(logs) = 0

C7_Witness ==
    /\ MatcherReturned
    /\ IsSourceTargetSchema
    /\ Kind = "paddlenlp"
    /\ logs = <<>>

----------------------------------------------------------------------------
(* C8 *)

DifferentLengths ==
    /\ BothColumns
    /\ batched
    /\ Len(arg[FirstField].items) # Len(arg[SecondField].items)

\* C8 as stated: whenever the two columns of a batch have different lengths
\* the Instruction and Source-Target Formatters return nothing and end in the
\* indexing error.
C8_MismatchAlwaysRaises ==
    DifferentLengths =>
        /\ raised = "IndexError"
        /\ output = None

\* C8 as amended: when the second column (completion, tgt) is shorter than the
\* first the call returns nothing and ends in the indexing error; when it is
\* longer the call returns the renderings of the rows of the first column,
\* row i paired with element i of the second, and the surplus is ignored.
C8_ShorterSecondRaises ==
    DifferentLengths =>
        IF Len(arg[SecondField].items) < Len(arg[FirstField].items)
        THEN /\ raised = "IndexError"
             /\ output = None
        ELSE /\ raised = ""
             /\ output.py = "list"
             /\ Len(output.items) = Len(arg[FirstField].items)
             /\ \A k \in 1..Len(arg[FirstField].items) :
                   output.items[k] =
                       PairRendering(arg[FirstField].items[k], arg[SecondField].items[k])

C8_Witness ==
    /\ DifferentLengths
    /\ Kind = "instruction"
    /\ Len(arg["prompt"].items) = 2
    /\ Len(arg["completion"].items) = 1
    /\ raised = "IndexError"
    /\ Len(calls) = 1

----------------------------------------------------------------------------
(* C9 *)

Evaluated(test) == \E k \in 1..Len(evaluated) : evaluated[k] = test

HasConversationsField == IsDataset /\ "conversations" \in DOMAIN Features

\* parts of C9 that do not depend on the reading of (a)
C9_Topology ==
    \* the instruction and source-target tests are else-branches of the
    \* `conversations`-field test
    /\ HasConversationsField =>
          /\ ~Evaluated("instruction_eq")
          /\ ~Evaluated("paddlenlp_eq")
          /\ Kind \in {"conversations", "absent"}
    /\ Evaluated("paddlenlp_eq") => Evaluated("instruction_eq")
    /\ Evaluated("instruction_eq") => Evaluated("conversations_in")
    \* (b)
    /\ Kind \in {"instruction", "paddlenlp"} =>
          /\ ~HasConversationsField
          /\ ~Step1Matches
    \* (c)
    /\ Step1Matches =>
          /\ ~Evaluated("conversations_in")
          /\ ~Evaluated("conversations_eq")
          /\ ~Evaluated("instruction_eq")
          /\ ~Evaluated("paddlenlp_eq")

\* C9 as stated: topology, (b), (c), and (a) with its second half read for
\* every schema: a `conversations` field that is not chatml yields None.
C9_NonChatmlConversationsAbsent ==
    MatcherReturned =>
        /\ C9_Topology
        /\ (HasConversationsField /\ ~HasChatml("conversations")) => formatter = None

\* C9 as amended: the same, the second half of (a) holding when step 1 did
\* not match; when step 1 matched the result is the Conversations Formatter
\* bound to `messages`.
C9_BranchingTopology ==
    MatcherReturned =>
        /\ C9_Topology
        /\ (HasConversationsField /\ ~HasChatml("conversations")) =>
              IF Step1Matches
              THEN Kind = "conversations" /\ BoundField = "messages"
              ELSE formatter = None

C9_Witness ==
    /\ MatcherReturned
    /\ HasConversationsField
    /\ ~HasChatml("conversations")
    /\ {"prompt", "completion"} \subseteq DOMAIN Features
    /\ ~Step1Matches
    /\ Evaluated("conversations_eq")
    /\ formatter = None

----------------------------------------------------------------------------
(* C10 *)

\* C10: the matcher calls the renderer zero times; a formatter call that
\* completes on a batch of N rows has made N renderer calls, call i for row
\* i, and on a single row one call; every renderer call passes tokenize =
\* false; the batch is left as it was handed in.
C10_RendererDiscipline ==
    /\ MatcherReturned => sel_calls = <<>>
    /\ FormatterCalled =>
          /\ \A k \in 1..Len(calls) : calls[k].tokenize = FALSE
          /\ examples = arg
          /\ raised = "" =>
                IF batched
                THEN /\ Len(calls) = BatchLength
                     /\ \A k \in 1..BatchLength :
                           calls[k].conversation = RowConversation(k)
                ELSE /\ Len(calls) = 1
                     /\ calls[1].conversation = ScalarConversation

C10_Witness ==
    /\ ConversationsCall
    /\ batched
    /\ raised = ""
    /\ Len(calls) = 2
    /\ calls[1] # calls[2]
    /\ calls[1].conversation = arg[BoundField].items[1]

====
